---- MODULE Spec2Model ----
(***************************************************************************)
(* State-machine model of src/app.js (Eind private chat): the usePeer hook *)
(* (connection registry, heartbeat, sendMessage) and the App component     *)
(* (conversation list, router, call session).                              *)
(*                                                                         *)
(* React semantics used throughout: a handler is a closure over the state  *)
(* of the render in which it was created.  A user action runs the handler  *)
(* of the current render (the UI is re-rendered after each state update),  *)
(* and so reads the current state.  A callback handed to the transport     *)
(* (conn.on, call.on), or the continuation of an await, keeps the state of *)
(* the render in which it was created; those captured values are stored    *)
(* in the model next to the object the callback was registered on.         *)
(* A user action is enabled when the element that triggers it is rendered. *)
(***************************************************************************)
EXTENDS Integers, Sequences, FiniteSets, TLC

\* ---------------------------------------------------------------- bounds
MaxCalls == 2       \* call handles created (incoming + outgoing)
MaxAcq == 2         \* getUserMedia requests issued
MaxErr == 1         \* 'error' events delivered per call handle
MaxConns == 2       \* connections created (inbound + outbound)
MaxMsgs == 2        \* messages appended to the conversation list
MaxData == 2        \* 'data' events delivered by the transport
MaxSent == 1        \* payloads handed to conn.send
MaxClock == 1       \* readings of Date.now()
MaxBot == 2         \* messages sent to the assistant

\* ---------------------------------------------------------------- values
NoCall == 0
NoStream == 0
NoConn == 0
NoChat == "none"
Bot == "bot"
Remotes == {"eind-1", "eind-2"}
Null == "null"

CallIds == 1..MaxCalls
AcqIds == 1..MaxAcq
ConnIds == 1..MaxConns

VARIABLES
  \* App state (useState)
  activeChat, showQR, notification, incomingCall, activeCall, localStream,
  remoteStream, chats,
  \* usePeer
  connectionsRef,
  \* Date.now()
  now,
  \* transport objects and what the program registered on them
  conns, numConns, calls, numCalls,
  \* navigator.mediaDevices.getUserMedia: pending requests and media handles
  acq, numAcq, media, stops,
  \* timers
  notifyPending, botTimers,
  \* observation of the transport boundary: payloads handed to conn.send,
  \* payloads delivered as 'data' events, payloads passed on to onData
  sent, delivered, routed

callVars == <<incomingCall, activeCall, localStream, remoteStream, calls,
              numCalls, acq, numAcq, media, stops>>
chatVars == <<activeChat, showQR, chats, connectionsRef, conns, numConns, now,
              botTimers, sent, delivered, routed>>
noteVars == <<notification, notifyPending>>
vars == <<callVars, chatVars, noteVars>>

\* ------------------------------------------------------------ notify
\* notify(msg), line 114: setNotification(msg) and a 3 s timer that clears
\* it.  notifyPending says that at least one such timer is still to fire; a
\* timer that fires while others are pending is followed by theirs, which
\* find the notification as the model's single firing leaves it unless
\* notify ran in between, and then a timer is pending again.
Notify(msg) ==
  /\ notification' = msg
  /\ notifyPending' = TRUE

\* the timers of notify fire: setNotification(null)
NotifyTimeout ==
  /\ notifyPending
  /\ notification' = Null
  /\ notifyPending' = FALSE
  /\ UNCHANGED <<callVars, chatVars>>

\* ------------------------------------------------------------ call session
\* A call handle: exists once created by peer.call or a peer 'call' event;
\* closed after close() or a 'close' event; closeSeen/errs count the events
\* the transport delivered; listeners are the endCall closures registered by
\* handleCallStream on 'close' and 'error' (and, with each, one 'stream'
\* listener), each holding the activeCall and localStream of its render.
\* a transport whose inbound handles arrive already answered
NewCallAnswered(dir) ==
  [exists |-> TRUE, dir |-> dir, closed |-> FALSE, closeSeen |-> FALSE,
   errs |-> 0, answered |-> (dir = "in"), listeners |-> <<>>]

NewCall(dir) ==
  [exists |-> TRUE, dir |-> dir, closed |-> FALSE, closeSeen |-> FALSE,
   errs |-> 0, answered |-> FALSE, listeners |-> <<>>]

NoCallRec ==
  [exists |-> FALSE, dir |-> Null, closed |-> FALSE, closeSeen |-> FALSE,
   errs |-> 0, answered |-> FALSE, listeners |-> <<>>]

\* endCall as a closure over (activeCall, localStream) of one render
Closure(ac, ls) == [ac |-> ac, ls |-> ls]

\* endCall, line 170: if(activeCall) activeCall.close(), for each closure of L
CloseCaptured(cs, L) ==
  [c \in CallIds |->
     IF \E i \in 1..Len(L) : L[i].ac = c
     THEN [cs[c] EXCEPT !.closed = TRUE] ELSE cs[c]]

\* endCall, line 171: track.stop() on every track of the captured localStream,
\* for each closure of L (stops counts the stop() calls per media handle)
StopCaptured(st, L) ==
  [s \in AcqIds |-> st[s] + Cardinality({i \in 1..Len(L) : L[i].ls = s})]

\* endCall, line 172
ClearSession ==
  /\ activeCall' = NoCall
  /\ incomingCall' = NoCall
  /\ localStream' = NoStream
  /\ remoteStream' = NoCall

\* endCall run from the current render (the end-call button, line 237, is
\* rendered while activeCall is set)
EndCall ==
  /\ activeCall # NoCall
  /\ calls' = CloseCaptured(calls, <<Closure(activeCall, localStream)>>)
  /\ stops' = StopCaptured(stops, <<Closure(activeCall, localStream)>>)
  /\ ClearSession
  /\ UNCHANGED <<numCalls, acq, numAcq, media, chatVars, noteVars>>

\* handleCallStream(call), lines 162-167, registering the closure cl
HandleCallStream(cs, c, cl) ==
  [cs EXCEPT ![c].listeners = Append(@, cl)]

\* peer 'call' event, line 57 -> handleIncomingCall, line 140
IncomingCall ==
  /\ numCalls < MaxCalls
  /\ numCalls' = numCalls + 1
  /\ calls' = [calls EXCEPT ![numCalls + 1] = NewCall("in")]
  /\ incomingCall' = numCalls + 1
  /\ UNCHANGED <<activeCall, localStream, remoteStream, acq, numAcq, media,
                 stops, chatVars, noteVars>>

\* reject button, line 221: incomingCall.close(); setIncomingCall(null)
RejectCall ==
  /\ incomingCall # NoCall
  /\ calls' = [calls EXCEPT ![incomingCall].closed = TRUE]
  /\ incomingCall' = NoCall
  /\ UNCHANGED <<activeCall, localStream, remoteStream, numCalls, acq, numAcq,
                 media, stops, chatVars, noteVars>>

\* A pending getUserMedia request with what its continuation captured
Request(n, kind, ic, ac, ls) ==
  [n |-> n, kind |-> kind, ic |-> ic, ac |-> ac, ls |-> ls]

\* answerCall up to its await, lines 151-154 (answer button, line 222)
AnswerCall ==
  /\ incomingCall # NoCall
  /\ numAcq < MaxAcq
  /\ numAcq' = numAcq + 1
  /\ acq' = acq \cup {Request(numAcq + 1, "answer", incomingCall, activeCall,
                              localStream)}
  /\ UNCHANGED <<incomingCall, activeCall, localStream, remoteStream, calls,
                 numCalls, media, stops, chatVars, noteVars>>

ChatOf(id) == CHOOSE i \in 1..Len(chats) : chats[i].id = id

\* startCall up to its await, lines 142-144 (call buttons, lines 337-338,
\* rendered in the ChatWindow of a P2P conversation)
StartCall ==
  /\ activeChat # NoChat
  /\ chats[ChatOf(activeChat)].isP2P
  /\ numAcq < MaxAcq
  /\ numAcq' = numAcq + 1
  /\ acq' = acq \cup {Request(numAcq + 1, "start", NoCall, activeCall,
                              localStream)}
  /\ UNCHANGED <<incomingCall, activeCall, localStream, remoteStream, calls,
                 numCalls, media, stops, chatVars, noteVars>>

\* a handler that would close over the call and the stream just created
CapturedFresh(a, call, stream) == Closure(call, stream)

\* the endCall that the continuation of request a hands to call.on, lines
\* 165-166: the endCall of the render that issued a, whatever call and stream
\* the continuation has created since
CapturedBy(a, call, stream) == Closure(a.ac, a.ls)

\* getUserMedia resolves for startCall: lines 145-147
StartCallResolved(a) ==
  /\ a \in acq
  /\ a.kind = "start"
  /\ numCalls < MaxCalls
  /\ acq' = acq \ {a}
  /\ localStream' = a.n
  /\ numCalls' = numCalls + 1
  /\ media' = [media EXCEPT ![a.n] = numCalls + 1]
  /\ calls' = HandleCallStream([calls EXCEPT ![numCalls + 1] = NewCall("out")],
                               numCalls + 1, CapturedBy(a, numCalls + 1, a.n))
  /\ activeCall' = numCalls + 1
  /\ UNCHANGED <<incomingCall, remoteStream, numAcq, stops, chatVars, noteVars>>

\* getUserMedia resolves for answerCall: lines 155-158
AnswerCallResolved(a) ==
  /\ a \in acq
  /\ a.kind = "answer"
  /\ acq' = acq \ {a}
  /\ localStream' = a.n
  /\ media' = [media EXCEPT ![a.n] = a.ic]
  /\ calls' = HandleCallStream([calls EXCEPT ![a.ic].answered = TRUE],
                               a.ic, CapturedBy(a, a.ic, a.n))
  /\ activeCall' = a.ic
  /\ incomingCall' = NoCall
  /\ UNCHANGED <<remoteStream, numCalls, numAcq, stops, chatVars, noteVars>>

\* a catch that swallows the rejection
AcquireFailedSilently(a) ==
  /\ a \in acq
  /\ acq' = acq \ {a}
  /\ UNCHANGED <<incomingCall, activeCall, localStream, remoteStream, calls,
                 numCalls, numAcq, media, stops, chatVars, noteVars>>

\* getUserMedia rejects: the catch of lines 148 and 159
AcquireFailed(a) ==
  /\ a \in acq
  /\ acq' = acq \ {a}
  /\ Notify(IF a.kind = "start" THEN "Camera Error" ELSE "Error answering")
  /\ UNCHANGED <<incomingCall, activeCall, localStream, remoteStream, calls,
                 numCalls, numAcq, media, stops, chatVars>>

\* 'stream' event on a call handle, line 164
CallStream(c) ==
  /\ calls[c].exists
  /\ calls[c].listeners # <<>>
  /\ remoteStream' = c
  /\ UNCHANGED <<incomingCall, activeCall, localStream, calls, numCalls, acq,
                 numAcq, media, stops, chatVars, noteVars>>

\* every endCall registered on the handle runs, lines 165-166, 169-173
RunListeners(cs, c) ==
  /\ calls' = CloseCaptured(cs, cs[c].listeners)
  /\ stops' = StopCaptured(stops, calls[c].listeners)
  /\ IF calls[c].listeners # <<>>
     THEN ClearSession
     ELSE UNCHANGED <<activeCall, incomingCall, localStream, remoteStream>>

\* 'close' event on a call handle
CallClose(c) ==
  /\ calls[c].exists
  /\ ~calls[c].closeSeen
  /\ RunListeners([calls EXCEPT ![c].closed = TRUE, ![c].closeSeen = TRUE], c)
  /\ UNCHANGED <<numCalls, acq, numAcq, media, chatVars, noteVars>>

\* 'error' event on a call handle
CallError(c) ==
  /\ calls[c].exists
  /\ calls[c].errs < MaxErr
  /\ RunListeners([calls EXCEPT ![c].errs = @ + 1], c)
  /\ UNCHANGED <<numCalls, acq, numAcq, media, chatVars, noteVars>>

\* ------------------------------------------------------------ payloads
Payload(type, text, content, fileName) ==
  [type |-> type, text |-> text, content |-> content, fileName |-> fileName]

HeartbeatMsg == Payload("heartbeat", Null, Null, Null)

\* what a remote may put on the wire: a heartbeat, the text of the spec's
\* scenario, an image as the remote's handleSend builds it, and an object
\* without a type field
Inbound ==
  {HeartbeatMsg,
   Payload("text", "hi", Null, Null),
   Payload("image", Null, "data:image", "a.png"),
   Payload(Null, Null, Null, Null)}

\* what the local user may send: the text of the input box, or a file
Outbound == {<<"hello", "text", Null>>, <<"data:image", "image", "a.png">>}

\* a || b on values where Null stands for undefined, null and ""
Or(a, b) == IF a # Null THEN a ELSE b

\* formatTime, line 9: the clock reading cut to hours and minutes (two
\* readings of the model's clock fall in one minute)
FormatTime(t) ==
  CASE t \div 2 = 0 -> "00:00" [] t \div 2 = 1 -> "00:01" [] OTHER -> "00:02"

\* a preview that shows the kind only
PreviewOfKind(type, text) == IF type = "image" THEN "Photo" ELSE "Video"

\* the preview of lines 119 and 188
Preview(type, text) ==
  IF type = "text" THEN text
  ELSE IF type = "image" THEN "Photo" ELSE "Video"

\* `User ${peerId.split('-')[1]}`, lines 126 and 136
UserName(id) == IF id = "eind-1" THEN "User 1" ELSE "User 2"

ChatIds(cs) == {cs[i].id : i \in 1..Len(cs)}
Find(cs, id) == cs[CHOOSE i \in 1..Len(cs) : cs[i].id = id]
Others(cs, id) == SelectSeq(cs, LAMBDA c : c.id # id)
NumMsgs == LET n[i \in 0..Len(chats)] ==
                 IF i = 0 THEN 0 ELSE n[i - 1] + Len(chats[i].messages)
           IN n[Len(chats)]

\* the local messages in the assistant's conversation
BotSends == Len(SelectSeq(Find(chats, Bot).messages,
                          LAMBDA m : m.sender = "me"))

\* the unread counter of line 124, with the activeChat the handler captured
UnreadAfter(existing, captured) ==
  IF existing.id = captured THEN 0 ELSE existing.unread + 1

\* handleIncomingData, lines 116-129, as the updater applied to prev; captured
\* is the activeChat of the render whose handleIncomingData was passed to
\* usePeer when the connection's handlers were installed
IncomingDataUpdate(prev, data, peerId, captured) ==
  LET msgContent == Preview(data.type, data.text)
      newMsg == [id |-> now, type |-> Or(data.type, "text"),
                 content |-> Or(data.content, data.text),
                 fileName |-> data.fileName, sender |-> "them",
                 time |-> FormatTime(now)]
  IN IF peerId \in ChatIds(prev)
     THEN LET existing == Find(prev, peerId)
          IN <<[existing EXCEPT !.messages = Append(@, newMsg),
                                !.lastMsg = msgContent,
                                !.time = FormatTime(now),
                                !.unread = UnreadAfter(existing, captured)]>>
             \o Others(prev, peerId)
     ELSE <<[id |-> peerId, name |-> UserName(peerId), avatar |-> "person",
             lastMsg |-> msgContent, time |-> FormatTime(now), unread |-> 1,
             isP2P |-> TRUE, messages |-> <<newMsg>>]>> \o prev

\* an updater that adds a conversation at every 'open'
NewConnUpdateAlways(prev, peerId) ==
  <<[id |-> peerId, name |-> UserName(peerId), avatar |-> "link",
     lastMsg |-> "Connected via Eind", time |-> FormatTime(now),
     unread |-> 0, isP2P |-> TRUE, messages |-> <<>>]>> \o prev

\* handleNewConn's updater, lines 134-137
NewConnUpdate(prev, peerId) ==
  IF peerId \in ChatIds(prev) THEN prev
  ELSE <<[id |-> peerId, name |-> UserName(peerId), avatar |-> "link",
          lastMsg |-> "Connected via Eind", time |-> FormatTime(now),
          unread |-> 0, isP2P |-> TRUE, messages |-> <<>>]>> \o prev

\* the updater of line 188 (and of line 205 for the assistant's reply)
AppendUpdate(prev, id, msg, preview) ==
  [i \in 1..Len(prev) |->
     IF prev[i].id = id
     THEN [prev[i] EXCEPT !.messages = Append(@, msg), !.lastMsg = preview,
                          !.time = FormatTime(now)]
     ELSE prev[i]]

\* ------------------------------------------------------------ connections
\* A connection handed to setupConnection: st is pending until 'open', open
\* while conn.open, closed after 'close'; erred once it delivered 'error'; ac
\* is the activeChat captured by the onData the handlers were installed with
NoConnRec == [peer |-> Null, st |-> "none", ac |-> NoChat, erred |-> FALSE]

SetupConnection(c, remoteId, captured) ==
  /\ numConns' = numConns + 1
  /\ conns' = [conns EXCEPT ![c] = [peer |-> remoteId, st |-> "pending",
                                    ac |-> captured, erred |-> FALSE]]

\* peer 'connection' event, line 56: the setupConnection of the first render
\* (the effect of line 48 runs once), whose onData captured activeChat = null
PeerConnection(r) ==
  /\ numConns < MaxConns
  /\ SetupConnection(numConns + 1, r, NoChat)
  /\ UNCHANGED <<activeChat, showQR, chats, connectionsRef, now, botTimers,
                 sent, delivered, routed, callVars, noteVars>>

\* connectTo, lines 79-83, from the QR dialog (line 306) of the current render
ConnectTo(r) ==
  /\ showQR
  /\ numConns < MaxConns
  /\ SetupConnection(numConns + 1, r, activeChat)
  /\ UNCHANGED <<activeChat, showQR, chats, connectionsRef, now, botTimers,
                 sent, delivered, routed, callVars, noteVars>>

\* a registry that stores the connection under the first free key
RegisterFirstFree(ref, peerId, c) ==
  IF \E k \in Remotes : ref[k] = NoConn
  THEN [ref EXCEPT ![CHOOSE k \in Remotes : ref[k] = NoConn] = c]
  ELSE ref

\* connectionsRef.current[conn.peer] = conn, line 73
Register(ref, peerId, c) == [ref EXCEPT ![peerId] = c]

\* 'open' event, line 73, and handleNewConn, lines 131-138
ConnOpen(c) ==
  /\ conns[c].st = "pending"
  /\ conns' = [conns EXCEPT ![c].st = "open"]
  /\ connectionsRef' = Register(connectionsRef, conns[c].peer, c)
  /\ Notify("Connected")
  /\ showQR' = FALSE
  /\ chats' = NewConnUpdate(chats, conns[c].peer)
  /\ UNCHANGED <<activeChat, numConns, now, botTimers, sent, delivered, routed,
                 callVars>>

\* a 'data' handler without the heartbeat test
ForwardedAll(data) == TRUE

\* the filter of line 74
Forwarded(data) == data.type # "heartbeat"

\* 'data' event, line 74
ConnData(c, data) ==
  /\ conns[c].st = "open"
  /\ Len(delivered) < MaxData
  /\ delivered' = Append(delivered, <<c, data>>)
  /\ IF Forwarded(data)
     THEN /\ NumMsgs < MaxMsgs
          /\ routed' = Append(routed, <<c, data>>)
          /\ chats' = IncomingDataUpdate(chats, data, conns[c].peer, conns[c].ac)
     ELSE UNCHANGED <<routed, chats>>
  /\ UNCHANGED <<activeChat, showQR, connectionsRef, conns, numConns, now,
                 botTimers, sent, callVars, noteVars>>

\* delete connectionsRef.current[conn.peer], lines 75-76
Deregister(ref, peerId) == [ref EXCEPT ![peerId] = NoConn]

\* 'close' event, line 75
ConnClose(c) ==
  /\ conns[c].st \in {"pending", "open"}
  /\ conns' = [conns EXCEPT ![c].st = "closed"]
  /\ connectionsRef' = Deregister(connectionsRef, conns[c].peer)
  /\ UNCHANGED <<activeChat, showQR, chats, numConns, now, botTimers, sent,
                 delivered, routed, callVars, noteVars>>

\* 'error' event, line 76, of an open connection; the transport keeps or
\* closes the connection on its own and reports a closing with 'close'
ConnError(c) ==
  /\ conns[c].st = "open"
  /\ conns' = [conns EXCEPT ![c].erred = TRUE]
  /\ connectionsRef' = Deregister(connectionsRef, conns[c].peer)
  /\ UNCHANGED <<activeChat, showQR, chats, numConns, now, botTimers, sent,
                 delivered, routed, callVars, noteVars>>

NumSent == LET n[c \in 0..MaxConns] ==
                 IF c = 0 THEN 0 ELSE n[c - 1] + Len(sent[c])
           IN n[MaxConns]

\* conn && conn.open, lines 65 and 87
IsOpen(c) == c # NoConn /\ conns[c].st = "open"

\* the heartbeat interval, lines 63-67
Heartbeat ==
  /\ \E r \in Remotes : IsOpen(connectionsRef[r])
  /\ NumSent + Cardinality({r \in Remotes : IsOpen(connectionsRef[r])})
       <= MaxSent
  /\ sent' = [c \in ConnIds |->
                IF \E r \in Remotes : connectionsRef[r] = c /\ IsOpen(c)
                THEN Append(sent[c], HeartbeatMsg) ELSE sent[c]]
  /\ UNCHANGED <<activeChat, showQR, chats, connectionsRef, conns, numConns,
                 now, botTimers, delivered, routed, callVars, noteVars>>

\* sendMessage, lines 85-89: its return value, and what it hands to conn.send
SendMessage(connId) == IsOpen(connectionsRef[connId])

SentAfter(connId, msg) ==
  IF SendMessage(connId)
  THEN [sent EXCEPT ![connectionsRef[connId]] = Append(@, msg)]
  ELSE sent

\* ------------------------------------------------------------ user actions
\* chat list onClick, line 266
SelectChat(id) ==
  /\ id \in ChatIds(chats)
  /\ activeChat' = id
  /\ UNCHANGED <<showQR, chats, connectionsRef, conns, numConns, now,
                 botTimers, sent, delivered, routed, callVars, noteVars>>

\* onBack, line 283
Back ==
  /\ activeChat # NoChat
  /\ activeChat' = NoChat
  /\ UNCHANGED <<showQR, chats, connectionsRef, conns, numConns, now,
                 botTimers, sent, delivered, routed, callVars, noteVars>>

\* the QR button, line 255, and the dialog's onClose, line 306
ToggleQR ==
  /\ showQR' = ~showQR
  /\ UNCHANGED <<activeChat, chats, connectionsRef, conns, numConns, now,
                 botTimers, sent, delivered, routed, callVars, noteVars>>

\* a handleSend that would ignore what sendMessage returned
DeliveredAlways(chat) == TRUE

\* lines 182-185: whether handleSend goes on to record the message
Delivered(chat) == ~chat.isP2P \/ SendMessage(chat.id)

\* a handleSend without the auto-reply
TimersAfterNone(id, n) == n

\* lines 191-192: a send to the assistant arms one reply timer
TimersAfter(id, n) == IF id = Bot THEN n + 1 ELSE n

\* handleSend, lines 177-208 (ChatWindow is rendered while activeChat is set)
HandleSend(content, type, fileName) ==
  /\ activeChat # NoChat
  /\ LET currentChat == Find(chats, activeChat)
         payload == Payload(type, IF type = "text" THEN content ELSE Null,
                            content, fileName)
         newMsg == [id |-> now, type |-> type, content |-> content,
                    fileName |-> fileName, sender |-> "me",
                    time |-> FormatTime(now)]
     IN IF Delivered(currentChat)
        THEN /\ IF activeChat = Bot THEN BotSends < MaxBot
                ELSE NumMsgs < MaxMsgs
             /\ currentChat.isP2P /\ SendMessage(activeChat)
                  => NumSent < MaxSent
             /\ sent' = IF currentChat.isP2P
                        THEN SentAfter(activeChat, payload) ELSE sent
             /\ chats' = AppendUpdate(chats, activeChat, newMsg,
                                      Preview(type, content))
             /\ botTimers' = TimersAfter(activeChat, botTimers)
             /\ UNCHANGED noteVars
        ELSE /\ Notify("Send failed")
             /\ UNCHANGED <<chats, sent, botTimers>>
  /\ UNCHANGED <<activeChat, showQR, connectionsRef, conns, numConns, now,
                 delivered, routed, callVars>>

\* botReplies, lines 193-199
BotReplies == {"Namaste", "QR icon", "Made in India", "No calls", "Need help"}

\* the assistant's timer fires, lines 192-206
BotReply(randomReply) ==
  /\ botTimers > 0
  /\ botTimers' = botTimers - 1
  /\ chats' = AppendUpdate(chats, Bot,
                [id |-> now + 1, type |-> "text", content |-> randomReply,
                 fileName |-> Null, sender |-> "them",
                 time |-> FormatTime(now)], randomReply)
  /\ UNCHANGED <<activeChat, showQR, connectionsRef, conns, numConns, now,
                 sent, delivered, routed, callVars, noteVars>>

\* time passes between two readings of Date.now()
Tick ==
  /\ now < MaxClock
  /\ now' = now + 1
  /\ UNCHANGED <<activeChat, showQR, chats, connectionsRef, conns, numConns,
                 botTimers, sent, delivered, routed, callVars, noteVars>>

\* ------------------------------------------------------------ specification
\* the state after the first render and its effect, lines 101-112 and 42-70
Init ==
  /\ activeChat = NoChat
  /\ showQR = FALSE
  /\ notification = Null
  /\ incomingCall = NoCall
  /\ activeCall = NoCall
  /\ localStream = NoStream
  /\ remoteStream = NoCall
  /\ chats = <<[id |-> Bot, name |-> "Eind Assistant", avatar |-> "robot",
                lastMsg |-> "Welcome to Eind!", time |-> "10:00",
                unread |-> 0, isP2P |-> FALSE, messages |-> <<>>]>>
  /\ connectionsRef = [r \in Remotes |-> NoConn]
  /\ now = 0
  /\ conns = [c \in ConnIds |-> NoConnRec]
  /\ numConns = 0
  /\ calls = [c \in CallIds |-> NoCallRec]
  /\ numCalls = 0
  /\ acq = {}
  /\ numAcq = 0
  /\ media = [s \in AcqIds |-> NoCall]
  /\ stops = [s \in AcqIds |-> 0]
  /\ notifyPending = FALSE
  /\ botTimers = 0
  /\ sent = [c \in ConnIds |-> <<>>]
  /\ delivered = <<>>
  /\ routed = <<>>

\* the call session, with what renders the call buttons: a connection to
\* one remote and the selection of its conversation
CallNext ==
  \/ IncomingCall
  \/ RejectCall
  \/ AnswerCall
  \/ StartCall
  \/ \E a \in acq : StartCallResolved(a)
  \/ \E a \in acq : AnswerCallResolved(a)
  \/ \E a \in acq : AcquireFailed(a)
  \/ \E c \in CallIds : CallStream(c)
  \/ \E c \in CallIds : CallClose(c)
  \/ \E c \in CallIds : CallError(c)
  \/ EndCall
  \/ NotifyTimeout
  \/ PeerConnection("eind-1")
  \/ \E c \in ConnIds : ConnOpen(c)
  \/ SelectChat("eind-1")

\* the router and the conversations of the remotes
ChatNext ==
  \/ \E r \in Remotes : PeerConnection(r)
  \/ \E c \in ConnIds : ConnOpen(c)
  \/ \E c \in ConnIds, d \in Inbound : ConnData(c, d)
  \/ \E c \in ConnIds : ConnClose(c)
  \/ \E id \in Remotes : SelectChat(id)
  \/ \E o \in Outbound : HandleSend(o[1], o[2], o[3])
  \/ Tick
  \/ NotifyTimeout

\* the assistant: its conversation, the messages sent to it and its reply
\* timers, while connections from one remote open
BotNext ==
  \/ PeerConnection("eind-1")
  \/ \E c \in ConnIds : ConnOpen(c)
  \/ SelectChat(Bot)
  \/ \E o \in Outbound : HandleSend(o[1], o[2], o[3])
  \/ \E r \in BotReplies : BotReply(r)

\* the connection registry of usePeer: the transport's events, the heartbeat
\* and connectTo from the QR dialog
WireNext ==
  \/ \E r \in Remotes : PeerConnection(r)
  \/ \E r \in Remotes : ConnectTo(r)
  \/ \E c \in ConnIds : ConnOpen(c)
  \/ \E c \in ConnIds, d \in Inbound : ConnData(c, d)
  \/ \E c \in ConnIds : ConnClose(c)
  \/ \E c \in ConnIds : ConnError(c)
  \/ Heartbeat
  \/ ToggleQR
  \/ NotifyTimeout

\* sending: connections that open and close, the selection of a
\* conversation and handleSend
SendNext ==
  \/ \E r \in Remotes : PeerConnection(r)
  \/ \E c \in ConnIds : ConnOpen(c)
  \/ \E c \in ConnIds : ConnClose(c)
  \/ \E id \in Remotes : SelectChat(id)
  \/ \E o \in Outbound : HandleSend(o[1], o[2], o[3])
  \/ NotifyTimeout

\* the session of an answered incoming call: ringing, answerCall, the
\* remote stream and the ways the session ends
TeardownNext ==
  \/ IncomingCall
  \/ AnswerCall
  \/ \E a \in acq : AnswerCallResolved(a)
  \/ \E c \in CallIds : CallStream(c)
  \/ \E c \in CallIds : CallClose(c)
  \/ \E c \in CallIds : CallError(c)
  \/ EndCall

\* the 'data' path of inbound connections and the heartbeat interval
DataNext ==
  \/ \E r \in Remotes : PeerConnection(r)
  \/ \E c \in ConnIds : ConnOpen(c)
  \/ \E c \in ConnIds, d \in Inbound : ConnData(c, d)
  \/ Heartbeat
  \/ NotifyTimeout

\* the registry alone: connections set up from either side, and their
\* 'open', 'close' and 'error' events
RegistryNext ==
  \/ \E r \in Remotes : PeerConnection(r)
  \/ \E r \in Remotes : ConnectTo(r)
  \/ \E c \in ConnIds : ConnOpen(c)
  \/ \E c \in ConnIds : ConnClose(c)
  \/ \E c \in ConnIds : ConnError(c)
  \/ ToggleQR
  \/ NotifyTimeout

\* routing: connections set up from either side while the user moves
\* between conversations, and the payloads they deliver
RouteNext ==
  \/ \E r \in Remotes : PeerConnection(r)
  \/ \E r \in Remotes : ConnectTo(r)
  \/ \E c \in ConnIds : ConnOpen(c)
  \/ \E c \in ConnIds, d \in Inbound : ConnData(c, d)
  \/ \E id \in Remotes : SelectChat(id)
  \/ ToggleQR

\* the outgoing call: a connection to one remote, the selection of its
\* conversation, startCall and the ways its session ends
OutgoingNext ==
  \/ PeerConnection("eind-1")
  \/ \E c \in ConnIds : ConnOpen(c)
  \/ SelectChat("eind-1")
  \/ StartCall
  \/ \E a \in acq : StartCallResolved(a)
  \/ \E a \in acq : AcquireFailed(a)
  \/ \E c \in CallIds : CallClose(c)
  \/ EndCall
  \/ NotifyTimeout

\* the conversation list: everything that calls setChats, with one remote
ListNext ==
  \/ PeerConnection("eind-1")
  \/ \E c \in ConnIds : ConnOpen(c)
  \/ \E c \in ConnIds, d \in Inbound : ConnData(c, d)
  \/ \E id \in {"eind-1", Bot} : SelectChat(id)
  \/ \E o \in Outbound : HandleSend(o[1], o[2], o[3])
  \/ \E r \in BotReplies : BotReply(r)

\* the whole program
Next ==
  \/ CallNext \/ ChatNext \/ WireNext \/ SendNext \/ TeardownNext \/ DataNext
  \/ RegistryNext \/ RouteNext \/ OutgoingNext \/ BotNext \/ ListNext

SpecCall == Init /\ [][CallNext]_vars
SpecChat == Init /\ [][ChatNext]_vars
SpecWire == Init /\ [][WireNext]_vars
SpecSend == Init /\ [][SendNext]_vars
SpecTeardown == Init /\ [][TeardownNext]_vars
SpecData == Init /\ [][DataNext]_vars
SpecRegistry == Init /\ [][RegistryNext]_vars
SpecRoute == Init /\ [][RouteNext]_vars
SpecOutgoing == Init /\ [][OutgoingNext]_vars
SpecBot == Init /\ [][BotNext]_vars
SpecList == Init /\ [][ListNext]_vars

\* the assistant with its timers firing: a timer set by setTimeout (line 192)
\* is never cleared, so its callback runs
SpecBotLive == SpecBot /\ WF_vars(\E r \in BotReplies : BotReply(r))
Spec == Init /\ [][Next]_vars

\* ------------------------------------------------------------ call claims
Idle ==
  /\ activeCall = NoCall
  /\ incomingCall = NoCall
  /\ localStream = NoStream
  /\ remoteStream = NoCall

\* the media handles acquired for call c
MediaOf(c) == {s \in AcqIds : media[s] = c}

\* C1: whenever no call session exists (no ringing and no active call, no
\* media request pending), every local media handle that was acquired has
\* had its tracks stopped.
C1_TeardownReleasesMedia ==
  (activeCall = NoCall /\ incomingCall = NoCall /\ acq = {})
    => \A s \in AcqIds : media[s] # NoCall => stops[s] >= 1

\* C2: terminating a session twice, by the end-call button and then by a
\* 'close' or 'error' event of the same call handle, stops the tracks of
\* the session's media handle exactly once: the button finds them unstopped
\* and stops them once, the event that follows stops them no further, and
\* each of the two leaves activeCall, incomingCall, localStream and
\* remoteStream null.
C2_IdempotentTeardown ==
  [][/\ EndCall =>
          /\ localStream # NoStream
          /\ media[localStream] = activeCall
          /\ stops[localStream] = 0
          /\ stops'[localStream] = 1
          /\ Idle'
     /\ \A c \in CallIds :
          ((CallClose(c) \/ CallError(c))
             /\ calls[c].listeners # <<>> /\ calls[c].closed /\ Idle)
          => /\ \A s \in MediaOf(c) : stops'[s] = stops[s]
             /\ Idle']_vars

\* a session ended by the button (its media handle stopped once, its call
\* handle closed) whose call handle has then delivered 'close'
C2_Witness ==
  \E c \in CallIds :
    /\ calls[c].closed
    /\ calls[c].closeSeen
    /\ calls[c].listeners # <<>>
    /\ MediaOf(c) # {}
    /\ \A s \in MediaOf(c) : stops[s] = 1
    /\ Idle

\* C3: incomingCall and activeCall are never both set, and a call handle held
\* in either is replaced by another handle only once it is closed.
C3_AtMostOneSession ==
  [][/\ ~(incomingCall' # NoCall /\ activeCall' # NoCall)
     /\ (incomingCall # NoCall /\ incomingCall' \notin {NoCall, incomingCall})
          => calls[incomingCall].closed
     /\ (activeCall # NoCall /\ activeCall' \notin {NoCall, activeCall})
          => calls[activeCall].closed]_vars

\* C4: when the media request of an answer resolves after its ringing call
\* was closed and dismissed, with the session idle, the new media handle is
\* stopped at once, the closed call handle is not answered and the session
\* stays idle.
C4_NoResurrection ==
  [][\A a \in acq :
       (AnswerCallResolved(a) /\ calls[a.ic].closed /\ Idle)
       => /\ stops'[a.n] >= 1
          /\ ~calls'[a.ic].answered
          /\ activeCall' = NoCall
          /\ localStream' = NoStream]_vars

\* ------------------------------------------------------------ chat claims
HasChat(id) == id \in ChatIds(chats)
Unread(cs, id) == Find(cs, id).unread
Messages(cs, id) == IF id \in ChatIds(cs) THEN Find(cs, id).messages ELSE <<>>

\* C5: a forwarded inbound message from remote R leaves R's unread counter
\* at 0 when R's conversation is the one being viewed, and otherwise one
\* above what it was (1 for a new conversation); no other counter changes.
C5_UnreadAccounting ==
  [][\A c \in ConnIds, d \in Inbound :
       (ConnData(c, d) /\ Forwarded(d))
       => LET R == conns[c].peer
          IN /\ Unread(chats', R) =
                  IF R = activeChat THEN 0
                  ELSE IF HasChat(R) THEN Unread(chats, R) + 1 ELSE 1
             /\ \A id \in ChatIds(chats) \ {R} :
                  Unread(chats', id) = Unread(chats, id)]_vars

\* C6: the conversation being viewed has unread = 0.
C6_UnreadZeroWhileViewed ==
  activeChat # NoChat => Unread(chats, activeChat) = 0

\* C7: a step that appends a message to a conversation leaves that
\* conversation first in the list.
C7_AppendedIsFirst ==
  [][\A id \in Remotes \cup {Bot} :
       Len(Messages(chats', id)) > Len(Messages(chats, id))
       => chats'[1].id = id]_vars

\* C8: the payloads handed to the router are the delivered payloads that are
\* not heartbeats, in the order of delivery, and the delivery of a heartbeat
\* leaves the conversation list as it was.
C8_HeartbeatTransparency ==
  /\ [](routed = SelectSeq(delivered, LAMBDA e : e[2].type # "heartbeat"))
  /\ [][\A c \in ConnIds : ConnData(c, HeartbeatMsg) => chats' = chats]_vars

\* a heartbeat and a real payload delivered on one connection, either order
C8_Witness ==
  /\ Len(delivered) = 2
  /\ delivered[1][1] = delivered[2][1]
  /\ \E i \in 1..2 : delivered[i][2] = HeartbeatMsg
  /\ Len(routed) = 1

\* C9: sendMessage(R, msg) returns false and hands nothing over when no
\* connection to R is open (opened, and neither closed nor erred since); when
\* one is, it returns true and hands msg to that connection once.
C9_SendContract ==
  \A R \in Remotes, o \in Outbound :
    LET msg == Payload(o[2], Null, o[1], o[3])
        open == {c \in ConnIds : /\ conns[c].peer = R
                                 /\ conns[c].st = "open"
                                 /\ ~conns[c].erred}
    IN IF open = {}
       THEN ~SendMessage(R) /\ SentAfter(R, msg) = sent
       ELSE /\ SendMessage(R)
            /\ \E c \in open :
                 SentAfter(R, msg) = [sent EXCEPT ![c] = Append(@, msg)]

\* C10: a handleSend for a P2P conversation whose sendMessage returns false
\* leaves the conversation list as it was, hands nothing to a connection and
\* notifies "Send failed".
C10_FailureKeepsHistory ==
  [][\A o \in Outbound :
       (/\ HandleSend(o[1], o[2], o[3])
        /\ Find(chats, activeChat).isP2P
        /\ ~SendMessage(activeChat))
       => /\ chats' = chats
          /\ sent' = sent
          /\ notification' = "Send failed"]_vars

\* the failure notification is showing while the conversation being viewed
\* holds no message
C10_Witness ==
  /\ notification = "Send failed"
  /\ activeChat \in Remotes
  /\ Messages(chats, activeChat) = <<>>

\* ------------------------------------------------------------ registry claims
\* the connections to remote R that the registry holds, under whatever key
RegisteredTo(R) ==
  {c \in ConnIds : /\ conns[c].peer = R
                   /\ \E k \in Remotes : connectionsRef[k] = c}

\* C11: for every remote R the registry holds at most one connection to R,
\* and holds it under the key R.
C11_AtMostOneConnection ==
  \A R \in Remotes :
    /\ Cardinality(RegisteredTo(R)) <= 1
    /\ \A c \in RegisteredTo(R) : connectionsRef[R] = c

\* two connections to one remote have both opened and are both still open
C11_Witness ==
  \E c, d \in ConnIds :
    /\ c # d
    /\ conns[c].peer = conns[d].peer
    /\ conns[c].st = "open" /\ conns[d].st = "open"
    /\ connectionsRef[conns[c].peer] = d

\* C12: connectTo(R) while the registry holds an open connection to R sets up
\* no connection and leaves the registry as it was.
C12_ConnectIsNoOpWhenConnected ==
  [][\A R \in Remotes :
       (ConnectTo(R) /\ IsOpen(connectionsRef[R]))
       => /\ numConns' = numConns
          /\ conns' = conns
          /\ connectionsRef' = connectionsRef]_vars

\* ------------------------------------------------------------ router claims
\* the kinds of message the router knows
Recognized(data) == data.type \in {"text", "image", "video"}

\* C13: the delivery of a payload that is neither of a recognized kind nor a
\* heartbeat leaves the conversation list and the notification as they were.
C13_MalformedDropped ==
  [][\A c \in ConnIds, d \in Inbound :
       (ConnData(c, d) /\ ~Recognized(d) /\ d.type # "heartbeat")
       => /\ chats' = chats
          /\ notification' = notification]_vars

\* connection c is the only connection set up to its remote so far, and the
\* remote has sent no message yet
NewlyConnected(c) ==
  /\ \A e \in ConnIds \ {c} : conns[e].peer # conns[c].peer
  /\ Messages(chats, conns[c].peer) = <<>>

\* C14: the delivery of a payload of a recognized kind from remote R appends
\* one message to the end of R's conversation, with sender 'them' and the
\* payload's kind, content and file name; the conversation is P2P-backed, its
\* lastMsg is the text of a text message, "Photo" for an image and "Video"
\* for a video; the messages of every other conversation stay as they were.
\* For the text "hi" on the first connection to R, before any other message
\* of R, the conversation has lastMsg "hi", unread 1 and that one message.
C14_InboundRouting ==
  [][\A c \in ConnIds, d \in Inbound :
       (ConnData(c, d) /\ Recognized(d))
       => LET R == conns[c].peer
              old == Messages(chats, R)
              new == Messages(chats', R)
          IN /\ Len(new) = Len(old) + 1
             /\ SubSeq(new, 1, Len(old)) = old
             /\ new[Len(new)].sender = "them"
             /\ new[Len(new)].type = d.type
             /\ new[Len(new)].content = Or(d.content, d.text)
             /\ new[Len(new)].fileName = d.fileName
             /\ Find(chats', R).isP2P
             /\ Find(chats', R).lastMsg =
                  (IF d.type = "text" THEN d.text
                   ELSE IF d.type = "image" THEN "Photo" ELSE "Video")
             /\ \A id \in (Remotes \cup {Bot}) \ {R} :
                  Messages(chats', id) = Messages(chats, id)
             /\ (NewlyConnected(c) /\ d.type = "text" /\ d.text = "hi")
                  => /\ Find(chats', R).lastMsg = "hi"
                     /\ Find(chats', R).unread = 1
                     /\ Len(new) = 1]_vars

\* the first message of a remote is the text "hi", and the user is viewing
\* another remote's conversation, which holds a message too
C14_Witness ==
  \E R \in Remotes :
    /\ HasChat(R)
    /\ Len(Messages(chats, R)) = 1
    /\ Messages(chats, R)[1].sender = "them"
    /\ Messages(chats, R)[1].content = "hi"
    /\ Find(chats, R).lastMsg = "hi"
    /\ Find(chats, R).unread = 1
    /\ \E Q \in Remotes \ {R} : Len(Messages(chats, Q)) = 1 /\ activeChat = Q

\* ------------------------------------------------------------ failure claims
\* C15: when the media request of a startCall fails, no call handle is
\* created, no media handle is attached to a call, activeCall, localStream
\* and incomingCall keep their values (null when the session was idle), and
\* the notification becomes the camera error.
C15_StartCallAcquireFailure ==
  [][\A a \in acq :
       (AcquireFailed(a) /\ a.kind = "start")
       => /\ calls' = calls
          /\ numCalls' = numCalls
          /\ media'[a.n] = NoCall
          /\ activeCall' = activeCall
          /\ localStream' = localStream
          /\ incomingCall' = incomingCall
          /\ Idle => Idle'
          /\ notification' = "Camera Error"
          /\ notifyPending']_vars

\* the only media request so far was a startCall's and it failed
C15_Witness ==
  /\ notification = "Camera Error"
  /\ numAcq = 1
  /\ acq = {}
  /\ numCalls = 0
  /\ Idle

\* ------------------------------------------------------------ assistant
\* the messages of the assistant's conversation that sender who wrote
BotMsgs(ms, who) == SelectSeq(ms, LAMBDA m : m.sender = who)

\* in every prefix of the conversation the replies are no more than the
\* local messages: each reply comes after the message it answers
RepliesFollow(ms) ==
  \A n \in 0..Len(ms) :
    Len(BotMsgs(SubSeq(ms, 1, n), "them"))
      <= Len(BotMsgs(SubSeq(ms, 1, n), "me"))

\* C16: a send to the assistant hands nothing to a connection, appends the
\* local message and arms one timer; the replies are drawn from the reply
\* pool, each after the message it answers; the replies and the timers still
\* to fire are as many as the local messages, so that with no timer pending
\* the two counts are equal; and the n-th local message is followed by an
\* n-th reply.
C16_AssistantReply ==
  /\ [](LET ms == Messages(chats, Bot)
        IN /\ Len(BotMsgs(ms, "them")) + botTimers = Len(BotMsgs(ms, "me"))
           /\ \A i \in 1..Len(ms) :
                ms[i].sender = "them" => ms[i].content \in BotReplies
           /\ RepliesFollow(ms))
  /\ [][\A o \in Outbound :
          (HandleSend(o[1], o[2], o[3]) /\ activeChat = Bot)
          => /\ sent' = sent
             /\ botTimers' = botTimers + 1
             /\ Messages(chats', Bot) =
                  Append(Messages(chats, Bot),
                         [id |-> now, type |-> o[2], content |-> o[1],
                          fileName |-> o[3], sender |-> "me",
                          time |-> FormatTime(now)])]_vars
  /\ \A n \in 1..MaxBot :
       (Len(BotMsgs(Messages(chats, Bot), "me")) >= n)
         ~> (Len(BotMsgs(Messages(chats, Bot), "them")) >= n)

\* two messages were sent to the assistant before its first reply, both
\* replies have arrived and a connection to a remote is open
C16_Witness ==
  LET ms == Messages(chats, Bot)
  IN /\ Len(ms) = 4
     /\ ms[1].sender = "me" /\ ms[2].sender = "me"
     /\ ms[3].sender = "them" /\ ms[4].sender = "them"
     /\ botTimers = 0
     /\ \E r \in Remotes : IsOpen(connectionsRef[r])

\* ------------------------------------------------------------ answering
\* C17: a peer 'call' event makes its handle the ringing call, unanswered,
\* and issues no media request; a media request for an answer is issued only
\* by the answer button, for the call ringing at that moment; a handle
\* becomes answered only when such a request for it resolves; a media handle
\* is attached to an inbound call only once that call is answered.
C17_NeverAutoAnswered ==
  /\ [][IncomingCall
          => /\ incomingCall' = numCalls'
             /\ incomingCall' # NoCall
             /\ calls'[incomingCall'].dir = "in"
             /\ ~calls'[incomingCall'].answered
             /\ acq' = acq
             /\ media' = media]_vars
  /\ [][\A a \in acq' \ acq :
          a.kind = "answer"
          => AnswerCall /\ incomingCall # NoCall /\ a.ic = incomingCall]_vars
  /\ [][\A c \in CallIds :
          (~calls[c].answered /\ calls'[c].answered)
          => \E a \in acq :
               a.kind = "answer" /\ a.ic = c /\ AnswerCallResolved(a)]_vars
  /\ [](\A s \in AcqIds :
          (media[s] # NoCall /\ calls[media[s]].dir = "in")
          => calls[media[s]].answered)

\* one inbound call has been answered and holds the session while a second
\* one rings unanswered
C17_Witness ==
  \E c, d \in CallIds :
    /\ calls[c].dir = "in" /\ calls[c].answered /\ activeCall = c
    /\ MediaOf(c) # {}
    /\ calls[d].dir = "in" /\ ~calls[d].answered /\ incomingCall = d

\* the notifications that report a failure (lines 58, 148, 159, 184)
FailureTexts == {"Network Error", "Camera Error", "Error answering",
                 "Send failed"}

\* C18: an 'error' event of a connection leaves that connection out of the
\* registry, an 'error' event of a call handle leaves the session idle, a
\* failed media request is dropped, and each of the three steps raises a
\* notification that reports a failure.
C18_FailuresSurfacedOnce ==
  [][/\ \A c \in ConnIds :
          ConnError(c)
          => /\ connectionsRef'[conns[c].peer] # c
             /\ notification' \in FailureTexts /\ notifyPending'
     /\ \A c \in CallIds :
          CallError(c)
          => /\ Idle'
             /\ notification' \in FailureTexts /\ notifyPending'
     /\ \A a \in acq :
          AcquireFailed(a)
          => /\ a \notin acq'
             /\ notification' \in FailureTexts /\ notifyPending']_vars

\* C19: the registry entry of a remote passes from one connection to another
\* only when the connection it held is no longer open.
C19_ReplaceOnlyAfterClose ==
  [][\A R \in Remotes :
       (/\ connectionsRef[R] # NoConn
        /\ connectionsRef'[R] # NoConn
        /\ connectionsRef'[R] # connectionsRef[R])
       => conns[connectionsRef[R]].st # "open"]_vars

\* C20: a 'close' or 'error' event of a connection to R that is not the one
\* registered for R leaves R's entry as it was, and with it what sendMessage
\* returns for R.
C20_DeregistersOwnOnly ==
  [][\A c \in ConnIds :
       ((ConnClose(c) \/ ConnError(c))
          /\ connectionsRef[conns[c].peer] \notin {NoConn, c})
       => /\ connectionsRef'[conns[c].peer] = connectionsRef[conns[c].peer]
          /\ SendMessage(conns[c].peer)' = SendMessage(conns[c].peer)]_vars

\* ------------------------------------------------------------ stray events
\* C21: remoteStream is set only while activeCall is set, and a 'stream'
\* event of a call handle that is not the active call changes nothing.
C21_StrayStreamIgnored ==
  /\ [](remoteStream # NoCall => activeCall # NoCall)
  /\ [][\A c \in CallIds :
          (CallStream(c) /\ activeCall # c) => UNCHANGED vars]_vars

\* ------------------------------------------------------------ list claims
IsPrefix(a, b) == Len(a) <= Len(b) /\ SubSeq(b, 1, Len(a)) = a

\* C22: no two conversations of the list share an id and the assistant's
\* conversation is in the list; a conversation of the list is in the list
\* after every step, with its messages as a prefix of its messages after.
C22_ConversationPermanence ==
  /\ [](/\ Cardinality(ChatIds(chats)) = Len(chats)
        /\ Bot \in ChatIds(chats))
  /\ [][\A id \in ChatIds(chats) :
          /\ id \in ChatIds(chats')
          /\ IsPrefix(Messages(chats, id), Messages(chats', id))]_vars

\* a remote whose conversation holds a message has two open connections,
\* and the assistant's conversation holds a message and its reply
C22_Witness ==
  /\ \E c, d \in ConnIds :
       /\ c # d
       /\ conns[c].peer = conns[d].peer
       /\ conns[c].st = "open" /\ conns[d].st = "open"
       /\ Len(Messages(chats, conns[c].peer)) >= 1
  /\ Len(Messages(chats, Bot)) = 2
  /\ Messages(chats, Bot)[2].sender = "them"
  /\ Len(chats) = 2

\* C23: no two messages of the list have the same id, and within a
\* conversation the ids increase strictly from each message to the next.
C23_UniqueMessageIds ==
  /\ \A i, k \in 1..Len(chats) :
       \A j \in 1..Len(chats[i].messages), l \in 1..Len(chats[k].messages) :
         <<i, j>> # <<k, l>>
         => chats[i].messages[j].id # chats[k].messages[l].id
  /\ \A i \in 1..Len(chats) :
       \A j \in 1..(Len(chats[i].messages) - 1) :
         chats[i].messages[j].id < chats[i].messages[j + 1].id

====
